---- MODULE Spec2Model ----
(***************************************************************************)
(* Model of the shortlink storage engine (src/redis.go): RedisCli.Shorten, *)
(* RedisCli.Unshorten and RedisCli.ShortlinkInfo running against one       *)
(* shared Redis.  Every Redis command a handler issues is one atomic step, *)
(* so concurrent Shorten calls interleave command by command.              *)
(*                                                                         *)
(* Strings are sequences of byte values, so that keys built with           *)
(* fmt.Sprintf and the output of toSha1 / base62.Encode are compared the   *)
(* way Redis compares them: byte for byte.                                 *)
(***************************************************************************)
EXTENDS Integers, Sequences, FiniteSets, TLC

VARIABLES
    kv,     \* the Redis keyspace: key -> [val, exp]; an absent key is not in DOMAIN kv
    clock,  \* the backend clock, in minutes
    call,   \* one record per Shorten call: position, arguments, locals, return value
    rd,     \* the result of the Unshorten / ShortlinkInfo call just made, or NoRead
    enc,    \* the encoder on its own: input, code, decoded value
    http    \* the HTTP layer on its own: storage result given, response written

vars == <<kv, clock, call, rd, enc, http>>

-----------------------------------------------------------------------------
(* Bounds of the model *)

NumCalls == 2       \* Shorten calls (each runs once, they may overlap)
MaxExp   == 2       \* largest expiration_in_minutes passed to Shorten
MaxClock == 2       \* the backend clock stops advancing here

Calls == 1..NumCalls

\* the URLs passed to Shorten: "a" and "1" (which is also a short code)
URLs == { <<97>>, <<49>> }

-----------------------------------------------------------------------------
(* Key schema, src/redis.go:14-19 *)

\* "next.url.id"
URLIDKEY == <<110,101,120,116,46,117,114,108,46,105,100>>

\* fmt.Sprintf("shortlink:%s:url", s)
ShortlinkKey(s) == <<115,104,111,114,116,108,105,110,107,58>> \o s \o <<58,117,114,108>>

\* fmt.Sprintf("urlhash:%s:url", s)
URLHashKey(s) == <<117,114,108,104,97,115,104,58>> \o s \o <<58,117,114,108>>

\* fmt.Sprintf("shortlink:%s:detail", s)
ShortlinkDetailKey(s) ==
    <<115,104,111,114,116,108,105,110,107,58>> \o s \o <<58,100,101,116,97,105,108>>

\* the literal "{}" Shorten compares the dedup value with
EmptyMarker == <<123,125>>

\* sha1.New().Sum(nil): the SHA-1 digest of the empty input, 20 bytes
EmptyDigest ==
    <<218,57,163,238,94,107,75,13,50,85,191,239,149,96,24,144,175,216,7,9>>

\* toSha1: sha.Sum(b) appends the digest of what was written to the hash (nothing)
\* to b, so the result is the input followed by the digest of the empty input.
toSha1(str) == str \o EmptyDigest

-----------------------------------------------------------------------------
(* Errors *)

ErrNone     == [kind |-> "nil", status |-> 0]
ErrBackend  == [kind |-> "backend", status |-> 0]       \* any other go-redis error
ErrRedisNil == [kind |-> "redis.Nil", status |-> 0]     \* redis.Nil, returned bare
StatusError(code) == [kind |-> "StatusError", status |-> code]

\* an error that carries a status (implements Error with Status())
Classified(e) == e.kind = "StatusError"

-----------------------------------------------------------------------------
(* The Redis commands the handlers use.  A command ends in one of three    *)
(* ways: "ok"; "refused" (an error, the server did not run it); "timeout"  *)
(* (an error at the client, the server did run it).                        *)

Outcomes == {"ok", "refused", "timeout"}

NoTTL == -1

\* GET key
RedisGet(s, k, o) ==
    IF o # "ok" THEN [val |-> <<>>, err |-> ErrBackend]
    ELSE IF k \notin DOMAIN s THEN [val |-> <<>>, err |-> ErrRedisNil]
    ELSE [val |-> s[k].val, err |-> ErrNone]

\* RedisSet storing the value without the expiry
RedisSetNoExpiry(s, k, v, ttl, now) ==
    [x \in DOMAIN s \cup {k} |-> IF x = k THEN [val |-> v, exp |-> NoTTL] ELSE s[x]]

\* SET key value [EX ttl]: go-redis sends no expiry when the duration is not positive
RedisSet(s, k, v, ttl, now) ==
    [x \in DOMAIN s \cup {k} |->
        IF x = k THEN [val |-> v, exp |-> IF ttl > 0 THEN now + ttl ELSE NoTTL]
        ELSE s[x]]

\* RedisIncr creating the counter with an expiry of one minute
RedisIncrExpiring(s, k) ==
    IF k \in DOMAIN s THEN [s EXCEPT ![k].val = @ + 1]
    ELSE [x \in DOMAIN s \cup {k} |-> IF x = k THEN [val |-> 1, exp |-> 1] ELSE s[x]]

\* RedisIncr leaving an existing counter as it is
RedisIncrStuck(s, k) ==
    IF k \in DOMAIN s THEN s
    ELSE [x \in DOMAIN s \cup {k} |-> IF x = k THEN [val |-> 1, exp |-> NoTTL] ELSE s[x]]

\* INCR key: an absent key counts as 0 and is created without expiry
RedisIncr(s, k) ==
    IF k \in DOMAIN s THEN [s EXCEPT ![k].val = @ + 1]
    ELSE [x \in DOMAIN s \cup {k} |-> IF x = k THEN [val |-> 1, exp |-> NoTTL] ELSE s[x]]

\* the keys still alive at time now
RedisExpire(s, now) ==
    [x \in {k \in DOMAIN s : s[k].exp = NoTTL \/ s[k].exp > now} |-> s[x]]

-----------------------------------------------------------------------------
(* The code encoder, base62.Encode (github.com/pilu/go-base62): the package *)
(* is imported by src/redis.go:11 and its source is not part of the         *)
(* repository, so it is modelled from the specification, section 4.2:       *)
(* 62 symbols (digits, lowercase, uppercase), positional, most significant  *)
(* symbol first, no leading zero symbol, zero is the single symbol "0".     *)

Base == 62

characterSet ==
    [i \in 1..Base |-> IF i <= 10 THEN 47 + i ELSE IF i <= 36 THEN 86 + i ELSE 28 + i]

\* EncodeDigits writing the least significant symbol first
RECURSIVE EncodeDigitsReversed(_)
EncodeDigitsReversed(n) ==
    IF n = 0 THEN <<>>
    ELSE <<characterSet[(n % Base) + 1]>> \o EncodeDigitsReversed(n \div Base)

RECURSIVE EncodeDigits(_)
EncodeDigits(n) ==
    IF n = 0 THEN <<>>
    ELSE Append(EncodeDigits(n \div Base), characterSet[(n % Base) + 1])

Encode(n) == IF n = 0 THEN <<characterSet[1]>> ELSE EncodeDigits(n)

\* position of symbol b in the alphabet, 0-based
SymbolValue(b) == (CHOOSE i \in 1..Base : characterSet[i] = b) - 1

RECURSIVE Decode(_)
Decode(s) ==
    IF s = <<>> THEN 0
    ELSE Decode(SubSeq(s, 1, Len(s) - 1)) * Base + SymbolValue(s[Len(s)])

-----------------------------------------------------------------------------
(* RedisCli.Shorten, src/redis.go:44-95, one step per Redis command *)

\* a call that has not started
IdleCall ==
    [pc |-> "idle", url |-> <<>>, exp |-> 0, id |-> 0, eid |-> <<>>,
     code |-> <<>>, err |-> ErrNone,
     hit |-> FALSE,     \* the call returned the value of its dedup read
     solo |-> TRUE,     \* no other call was running when this one started
     lastO |-> "ok",    \* how the latest Redis command of this call ended
     cmds |-> <<>>,     \* the Redis commands this call has issued, in order
     incrs |-> 0,       \* INCR commands of this call the server ran
     urlAt |-> -1]      \* the clock when this call wrote its URL record

\* return code, err
Return(c, code, err) == [c EXCEPT !.pc = "done", !.code = code, !.err = err]

\* ShortenDedup with the backend error wrapped in a StatusError
ShortenDedupWrapped(c, g) ==
    IF g.err = ErrRedisNil THEN [c EXCEPT !.pc = "incr"]
    ELSE IF g.err # ErrNone THEN Return(c, <<>>, StatusError(500))
    ELSE IF g.val = EmptyMarker THEN [c EXCEPT !.pc = "incr"]
    ELSE [Return(c, g.val, ErrNone) EXCEPT !.hit = TRUE]

\* ShortenDedup without the comparison with "{}": the marker is returned as a code
ShortenDedupSentinelHit(c, g) ==
    IF g.err = ErrRedisNil THEN [c EXCEPT !.pc = "incr"]
    ELSE IF g.err # ErrNone THEN Return(c, <<>>, g.err)
    ELSE [Return(c, g.val, ErrNone) EXCEPT !.hit = TRUE]

\* ShortenDedup going on to allocate whatever the read found
ShortenDedupIgnoreHit(c, g) ==
    IF g.err = ErrRedisNil THEN [c EXCEPT !.pc = "incr"]
    ELSE IF g.err # ErrNone THEN Return(c, <<>>, g.err)
    ELSE [c EXCEPT !.pc = "incr"]

\* lines 47-58: the dedup read, g is the result of GET urlhash:<h>:url
ShortenDedup(c, g) ==
    IF g.err = ErrRedisNil THEN [c EXCEPT !.pc = "incr"]
    ELSE IF g.err # ErrNone THEN Return(c, <<>>, g.err)
    ELSE IF g.val = EmptyMarker THEN [c EXCEPT !.pc = "incr"]
    ELSE [Return(c, g.val, ErrNone) EXCEPT !.hit = TRUE]

\* ShortenIncr trying the INCR again when it failed
ShortenIncrRetry(c, o) ==
    LET ran == [c EXCEPT !.incrs = @ + (IF o = "refused" THEN 0 ELSE 1)]
    IN  IF o # "ok" THEN ran ELSE [ran EXCEPT !.pc = "getid"]

\* lines 59-62: INCR next.url.id
ShortenIncr(c, o) ==
    LET ran == [c EXCEPT !.incrs = @ + (IF o = "refused" THEN 0 ELSE 1)]
    IN  IF o # "ok" THEN Return(ran, <<>>, ErrBackend) ELSE [ran EXCEPT !.pc = "getid"]

\* ShortenGetID going straight to the write of the fingerprint record
ShortenGetIDSkipURL(c, g) ==
    IF g.err # ErrNone THEN Return(c, <<>>, g.err)
    ELSE [c EXCEPT !.pc = "sethash", !.id = g.val, !.eid = Encode(g.val)]

\* lines 64-68: GET next.url.id, parsed as int64, then base62.Encode
ShortenGetID(c, g) ==
    IF g.err # ErrNone THEN Return(c, <<>>, g.err)
    ELSE [c EXCEPT !.pc = "seturl", !.id = g.val, !.eid = Encode(g.val)]

\* ShortenAfterSet going on to the next write without looking at the error
ShortenAfterSetIgnoreErr(c, o, next) ==
    IF next = "done" THEN Return(c, c.eid, ErrNone)
    ELSE [c EXCEPT !.pc = next]

\* lines 70-73 and 75-78 and 89-92: what follows a SET
ShortenAfterSet(c, o, next) ==
    IF o # "ok" THEN Return(c, <<>>, ErrBackend)
    ELSE IF next = "done" THEN Return(c, c.eid, ErrNone)
    ELSE [c EXCEPT !.pc = next]

\* lines 80-84: the URLDetail that is marshalled
URLDetail(c, now) == [url |-> c.url, created_at |-> now, expiration_in_minutes |-> c.exp]

-----------------------------------------------------------------------------
(* RedisCli.Unshorten and RedisCli.ShortlinkInfo, src/redis.go:97-117 *)

NotFound == 404

\* Unshorten returning redis.Nil bare, not wrapped in StatusError{404, err}
UnshortenBareNil(s, eid, o) ==
    LET g == RedisGet(s, ShortlinkKey(eid), o)
    IN  IF g.err # ErrNone THEN [val |-> <<>>, err |-> g.err]
        ELSE [val |-> g.val, err |-> ErrNone]

\* lines 108-117: the value returned for GET shortlink:<eid>:url ending as o
Unshorten(s, eid, o) ==
    LET g == RedisGet(s, ShortlinkKey(eid), o)
    IN  IF g.err = ErrRedisNil THEN [val |-> <<>>, err |-> StatusError(NotFound)]
        ELSE IF g.err # ErrNone THEN [val |-> <<>>, err |-> g.err]
        ELSE [val |-> g.val, err |-> ErrNone]

\* lines 97-106: the value returned for GET shortlink:<eid>:detail ending as o
ShortlinkInfo(s, eid, o) ==
    LET g == RedisGet(s, ShortlinkDetailKey(eid), o)
    IN  IF g.err = ErrRedisNil THEN [val |-> <<>>, err |-> StatusError(NotFound)]
        ELSE IF g.err # ErrNone THEN [val |-> <<>>, err |-> g.err]
        ELSE [val |-> g.val, err |-> ErrNone]

\* Unshorten reading with a command that also deletes the key
UnshortenStoreGetDel(s, eid) ==
    [x \in DOMAIN s \ {ShortlinkKey(eid)} |-> s[x]]

\* the keyspace after Unshorten / ShortlinkInfo: their only command is a GET
UnshortenStore(s, eid) == s
ShortlinkInfoStore(s, eid) == s

NoRead == [op |-> "none", eid |-> <<>>, o |-> "ok", val |-> <<>>, err |-> ErrNone]

\* the codes looked up: those the calls can be given, and one never allocated
ProbeCodes == { Encode(n) : n \in 1..(NumCalls + 1) }

-----------------------------------------------------------------------------
(* The state machine *)

\* the encoder and the HTTP layer when they are not the subject
EncOff  == [pc |-> "off", n |-> 0, s |-> <<>>, d |-> 0]
HttpOff == [handler |-> "off", ret |-> [val |-> <<>>, err |-> ErrNone],
            resp |-> [status |-> 0, body |-> <<>>, location |-> <<>>]]

\* an empty Redis, no call made
StoreInit ==
    /\ kv = << >>
    /\ clock = 0
    /\ call = [p \in Calls |-> IdleCall]
    /\ rd = NoRead

Init ==
    /\ StoreInit
    /\ enc = EncOff
    /\ http = HttpOff

\* a client calls Shorten(url, exp); the calls are numbered in the order they start
Call(p) ==
    /\ rd = NoRead
    /\ call[p].pc = "idle"
    /\ \A q \in Calls : q < p => call[q].pc # "idle"
    /\ \E u \in URLs, t \in 1..MaxExp :
          call' = [call EXCEPT
                     ![p] = [@ EXCEPT !.pc = "dedup", !.url = u, !.exp = t,
                                      !.solo = \A q \in Calls \ {p} :
                                                  call[q].pc \in {"idle", "done"}]]
    /\ rd' = NoRead
    /\ UNCHANGED <<kv, clock, enc, http>>

\* line 47
Dedup(p) ==
    /\ rd = NoRead
    /\ call[p].pc = "dedup"
    /\ \E o \in Outcomes :
          call' = [call EXCEPT
                     ![p] = [ShortenDedup(@, RedisGet(kv, URLHashKey(toSha1(@.url)), o))
                               EXCEPT !.lastO = o, !.cmds = Append(@, "GET")]]
    /\ rd' = NoRead
    /\ UNCHANGED <<kv, clock, enc, http>>

\* line 59
Incr(p) ==
    /\ rd = NoRead
    /\ call[p].pc = "incr"
    /\ \E o \in Outcomes :
          /\ call' = [call EXCEPT ![p] = [ShortenIncr(@, o) EXCEPT !.lastO = o,
                                                             !.cmds = Append(@, "INCR")]]
          /\ kv' = IF o = "refused" THEN kv ELSE RedisIncr(kv, URLIDKEY)
    /\ rd' = NoRead
    /\ UNCHANGED <<clock, enc, http>>

\* line 64
GetID(p) ==
    /\ rd = NoRead
    /\ call[p].pc = "getid"
    /\ \E o \in Outcomes :
          call' = [call EXCEPT
                     ![p] = [ShortenGetID(@, RedisGet(kv, URLIDKEY, o))
                               EXCEPT !.lastO = o, !.cmds = Append(@, "GET")]]
    /\ rd' = NoRead
    /\ UNCHANGED <<kv, clock, enc, http>>

\* line 70
SetURL(p) ==
    /\ rd = NoRead
    /\ call[p].pc = "seturl"
    /\ \E o \in Outcomes :
          /\ call' = [call EXCEPT
                        ![p] = [ShortenAfterSet(@, o, "sethash") EXCEPT
                                  !.lastO = o, !.cmds = Append(@, "SET"),
                                  !.urlAt = IF o = "refused" THEN @ ELSE clock]]
          /\ kv' = IF o = "refused" THEN kv
                   ELSE RedisSet(kv, ShortlinkKey(call[p].eid), call[p].url,
                                 call[p].exp, clock)
    /\ rd' = NoRead
    /\ UNCHANGED <<clock, enc, http>>

\* line 75
SetHash(p) ==
    /\ rd = NoRead
    /\ call[p].pc = "sethash"
    /\ \E o \in Outcomes :
          /\ call' = [call EXCEPT
                        ![p] = [ShortenAfterSet(@, o, "setdetail")
                                  EXCEPT !.lastO = o, !.cmds = Append(@, "SET")]]
          /\ kv' = IF o = "refused" THEN kv
                   ELSE RedisSet(kv, URLHashKey(call[p].eid), call[p].url,
                                 call[p].exp, clock)
    /\ rd' = NoRead
    /\ UNCHANGED <<clock, enc, http>>

\* lines 80-94
SetDetail(p) ==
    /\ rd = NoRead
    /\ call[p].pc = "setdetail"
    /\ \E o \in Outcomes :
          /\ call' = [call EXCEPT
                        ![p] = [ShortenAfterSet(@, o, "done")
                                  EXCEPT !.lastO = o, !.cmds = Append(@, "SET")]]
          /\ kv' = IF o = "refused" THEN kv
                   ELSE RedisSet(kv, ShortlinkDetailKey(call[p].eid),
                                 URLDetail(call[p], clock), call[p].exp, clock)
    /\ rd' = NoRead
    /\ UNCHANGED <<clock, enc, http>>

\* a client calls Unshorten(eid)
DoUnshorten ==
    /\ rd = NoRead
    /\ \E eid \in ProbeCodes, o \in Outcomes :
          /\ rd' = [op |-> "Unshorten", eid |-> eid, o |-> o,
                    val |-> Unshorten(kv, eid, o).val, err |-> Unshorten(kv, eid, o).err]
          /\ kv' = UnshortenStore(kv, eid)
    /\ UNCHANGED <<clock, call, enc, http>>

\* a client calls ShortlinkInfo(eid)
DoShortlinkInfo ==
    /\ rd = NoRead
    /\ \E eid \in ProbeCodes, o \in Outcomes :
          /\ rd' = [op |-> "ShortlinkInfo", eid |-> eid, o |-> o,
                    val |-> ShortlinkInfo(kv, eid, o).val,
                    err |-> ShortlinkInfo(kv, eid, o).err]
          /\ kv' = ShortlinkInfoStore(kv, eid)
    /\ UNCHANGED <<clock, call, enc, http>>

\* a minute passes; Redis drops the keys whose time has come
Tick ==
    /\ rd = NoRead
    /\ clock < MaxClock
    /\ clock' = clock + 1
    /\ kv' = RedisExpire(kv, clock + 1)
    /\ rd' = NoRead
    /\ UNCHANGED <<call, enc, http>>

\* the client takes the result of its Unshorten / ShortlinkInfo call
Taken ==
    /\ rd # NoRead
    /\ rd' = NoRead
    /\ UNCHANGED <<kv, clock, call, enc, http>>

Next ==
    \/ \E p \in Calls :
          \/ Call(p)
          \/ Dedup(p)
          \/ Incr(p)
          \/ GetID(p)
          \/ SetURL(p)
          \/ SetHash(p)
          \/ SetDetail(p)
    \/ DoUnshorten
    \/ DoShortlinkInfo
    \/ Taken
    \/ Tick

Spec == Init /\ [][Next]_vars

-----------------------------------------------------------------------------
(* Shorten against a Redis that already holds a record under the key the   *)
(* dedup read looks up (the server RedisCli connects to is shared, and      *)
(* Shorten itself compares what it finds there with "{}").                  *)

\* what the record found holds: the "{}" marker, or a short code ("7")
SeedValues == { EmptyMarker, <<55>> }

\* a keyspace holding one such record, for one of the URLs, expiring at MaxClock
SeededStores ==
    { [k \in {URLHashKey(toSha1(u))} |-> [val |-> v, exp |-> MaxClock]] :
        u \in URLs, v \in SeedValues }

SeededInit ==
    /\ kv \in SeededStores
    /\ clock = 0
    /\ call = [p \in Calls |-> IdleCall]
    /\ rd = NoRead
    /\ enc = EncOff
    /\ http = HttpOff

SeededNext ==
    \/ \E p \in Calls :
          \/ Call(p)
          \/ Dedup(p)
          \/ Incr(p)
          \/ GetID(p)
          \/ SetURL(p)
          \/ SetHash(p)
          \/ SetDetail(p)
    \/ Tick

SeededSpec == SeededInit /\ [][SeededNext]_vars

-----------------------------------------------------------------------------
(* The encoder on its own: encode an input, decode the code *)

MaxEncN == 130      \* inputs 0..MaxEncN, and the boundaries below

\* one, two, three, four and six symbol codes; the last is the largest input checked
EncInputs ==
    (0..MaxEncN) \cup { Base * Base - 1, Base * Base, Base * Base + 1,
                        Base * Base * Base - 1, Base * Base * Base, 2147483647 }

EncInit ==
    /\ StoreInit
    /\ http = HttpOff
    /\ \E n \in EncInputs : enc = [pc |-> "start", n |-> n, s |-> <<>>, d |-> 0]

EncodeStep ==
    /\ enc.pc = "start"
    /\ enc' = [enc EXCEPT !.pc = "encoded", !.s = Encode(enc.n)]
    /\ UNCHANGED <<kv, clock, call, rd, http>>

DecodeStep ==
    /\ enc.pc = "encoded"
    /\ enc' = [enc EXCEPT !.pc = "decoded", !.d = Decode(enc.s)]
    /\ UNCHANGED <<kv, clock, call, rd, http>>

EncNext == EncodeStep \/ DecodeStep

EncSpec == EncInit /\ [][EncNext]_vars

-----------------------------------------------------------------------------
(* The HTTP layer on its own, given the storage results a Storage          *)
(* implementation (RedisCli, or the tests' storageMock) can return.        *)

StatusCreated == 201
StatusTemporaryRedirect == 307
StatusInternalServerError == 500

\* http.StatusText(http.StatusInternalServerError)
InternalServerErrorText == "Internal Server Error"

\* respondWithError always answering 500: the switch on the error's type left out
respondWithErrorUntyped(e) ==
    [status |-> StatusInternalServerError, body |-> InternalServerErrorText,
     location |-> <<>>]

\* respondWithError: an error with a Status() answers with it, any other with 500
respondWithError(e) ==
    IF Classified(e)
    THEN [status |-> e.status, body |-> e, location |-> <<>>]
    ELSE [status |-> StatusInternalServerError, body |-> InternalServerErrorText,
          location |-> <<>>]

\* POST /api/shorten, after Shorten returned r
createShortlink(r) ==
    IF r.err # ErrNone THEN respondWithError(r.err)
    ELSE [status |-> StatusCreated, body |-> [shortlink |-> r.val], location |-> <<>>]

\* GET /{shortlink}, after Unshorten returned r
redirect(r) ==
    IF r.err # ErrNone THEN respondWithError(r.err)
    ELSE [status |-> StatusTemporaryRedirect, body |-> <<>>, location |-> r.val]

\* the values and errors the storage is made to return:
\* "", "a", "1", "2", "10", "IFHZzaO" (shortLink), "https://www.baidu.com" (longURL)
MockValues ==
    { <<>>, <<97>>, <<49>>, <<50>>, <<49,48>>, <<73,70,72,90,122,97,79>>,
      <<104,116,116,112,115,58,47,47,119,119,119,46,98,97,105,100,117,46,99,111,109>> }

MockErrors ==
    { ErrNone, ErrBackend, ErrRedisNil,
      StatusError(NotFound), StatusError(400), StatusError(503) }

HttpInit ==
    /\ StoreInit
    /\ enc = EncOff
    /\ \E v \in MockValues, e \in MockErrors :
          http = [HttpOff EXCEPT !.handler = "ready", !.ret = [val |-> v, err |-> e]]

HandleCreateShortlink ==
    /\ http.handler = "ready"
    /\ http' = [http EXCEPT !.handler = "createShortlink",
                            !.resp = createShortlink(http.ret)]
    /\ UNCHANGED <<kv, clock, call, rd, enc>>

HandleRedirect ==
    /\ http.handler = "ready"
    /\ http' = [http EXCEPT !.handler = "redirect", !.resp = redirect(http.ret)]
    /\ UNCHANGED <<kv, clock, call, rd, enc>>

HttpNext == HandleCreateShortlink \/ HandleRedirect

HttpSpec == HttpInit /\ [][HttpNext]_vars

-----------------------------------------------------------------------------
(* Vocabulary of the properties *)

\* call p has returned a code and no error
Returned(p) == call[p].pc = "done" /\ call[p].err = ErrNone

\* call p obtained an id from the counter
Allocated(p) == call[p].id > 0

\* the URL record call p wrote has not reached its expiry
UrlRecordFresh(p) == call[p].urlAt >= 0 /\ clock < call[p].urlAt + call[p].exp

-----------------------------------------------------------------------------
(* C1 -- Uniqueness under concurrency: the codes returned by successful     *)
(* Shorten calls with pairwise distinct URLs are pairwise distinct, i.e. no *)
(* two allocating calls use the same counter value as their id.             *)
C1_UniqueCodes ==
    \A p, q \in Calls :
        (p # q /\ Returned(p) /\ Returned(q) /\ call[p].url # call[q].url)
            => /\ call[p].code # call[q].code
               /\ call[p].id # call[q].id

(* C2 -- Resolution consistency: once Shorten(u, t) has returned code c and *)
(* the TTL of c's URL record has not elapsed, an Unshorten(c) whose backend *)
(* read succeeds returns exactly u.                                         *)
C2_ResolutionConsistency ==
    \A p \in Calls :
        (/\ Returned(p) /\ UrlRecordFresh(p)
         /\ rd.op = "Unshorten" /\ rd.eid = call[p].code /\ rd.o = "ok")
            => rd.err = ErrNone /\ rd.val = call[p].url

(* C3 -- Dedup within TTL: a Shorten(u, t') that starts after Shorten(u, t) *)
(* returned c, with no call overlapping, no backend failure and no record   *)
(* of the first call expired, returns c and allocates no new code.          *)
C3_DedupWithinTTL ==
    \A p, q \in Calls :
        (/\ p < q /\ call[p].solo /\ call[q].solo
         /\ Returned(p) /\ Returned(q)
         /\ call[p].url = call[q].url
         /\ UrlRecordFresh(p))
            => call[q].code = call[p].code /\ ~Allocated(q)

(* C4 -- Not-found on absent record: with the backend reachable and no    *)
(* URL record for c, Unshorten(c) fails with the classified error of       *)
(* status 404 and returns no URL; with no detail record for c,             *)
(* ShortlinkInfo(c) fails with the classified error of status 404.         *)
C4_NotFoundOnAbsent ==
    /\ (rd.op = "Unshorten" /\ rd.o = "ok" /\ ShortlinkKey(rd.eid) \notin DOMAIN kv)
          => rd.err = StatusError(NotFound) /\ rd.val = <<>>
    /\ (rd.op = "ShortlinkInfo" /\ rd.o = "ok"
            /\ ShortlinkDetailKey(rd.eid) \notin DOMAIN kv)
          => rd.err = StatusError(NotFound) /\ rd.val = <<>>

\* Unshorten of a code whose record has expired answered 404
C4_Witness ==
    /\ rd.op = "Unshorten" /\ rd.o = "ok" /\ rd.err = StatusError(NotFound)
    /\ \E p \in Calls : Returned(p) /\ call[p].code = rd.eid /\ ~UrlRecordFresh(p)

\* the key a read operation looks up
ReadKey == IF rd.op = "Unshorten" THEN ShortlinkKey(rd.eid) ELSE ShortlinkDetailKey(rd.eid)

(* C5 -- Error classification: a status-carrying error comes only from     *)
(* Unshorten and ShortlinkInfo and only when the key looked up is absent;   *)
(* a backend failure in Shorten, Unshorten or ShortlinkInfo is returned as  *)
(* an unclassified error; Shorten never returns a classified error.         *)
C5_ErrorClassification ==
    /\ \A p \in Calls : ~Classified(call[p].err)
    /\ \A p \in Calls :
          call[p].lastO # "ok" => call[p].pc = "done" /\ call[p].err = ErrBackend
    /\ rd # NoRead =>
          /\ Classified(rd.err) <=> (rd.o = "ok" /\ ReadKey \notin DOMAIN kv)
          /\ rd.o # "ok" => rd.err = ErrBackend

\* a Shorten call ended by a failed dedup read, and a read that failed at the backend
C5_Witness ==
    /\ rd # NoRead /\ rd.o # "ok"
    /\ \E p \in Calls : call[p].lastO # "ok" /\ ~Allocated(p) /\ call[p].incrs = 0

(* C6 -- Expiry: once the clock exceeds t minutes past the creation of the *)
(* URL record a Shorten(u, t) call wrote under code c, Unshorten(c)        *)
(* returns NotFound, whatever other calls did in between.                  *)
C6_Expiry ==
    \A p \in Calls :
        (/\ call[p].urlAt >= 0 /\ clock > call[p].urlAt + call[p].exp
         /\ rd.op = "Unshorten" /\ rd.eid = call[p].eid /\ rd.o = "ok")
            => rd.err = StatusError(NotFound)

\* the result the read operation just made would give if made again now
ReadAgain ==
    IF rd.op = "Unshorten" THEN Unshorten(kv, rd.eid, rd.o)
    ELSE ShortlinkInfo(kv, rd.eid, rd.o)

(* C7 -- Pure reads: Unshorten and ShortlinkInfo change nothing in the      *)
(* backend (counter, record values, expiry times), whether they succeed or  *)
(* fail, and repeating the call on the unchanged backend gives the same     *)
(* result.                                                                  *)
C7_PureReads ==
    [][(rd = NoRead /\ rd' # NoRead) =>
          /\ kv' = kv /\ clock' = clock
          /\ rd'.val = ReadAgain'.val /\ rd'.err = ReadAgain'.err]_vars

\* an Unshorten that found its record and a backend that holds all three records
C7_Witness ==
    /\ rd.op = "Unshorten" /\ rd.err = ErrNone
    /\ ShortlinkDetailKey(rd.eid) \in DOMAIN kv
    /\ URLHashKey(rd.eid) \in DOMAIN kv

\* the value of the counter, 0 when the key is absent
Counter == IF URLIDKEY \in DOMAIN kv THEN kv[URLIDKEY].val ELSE 0

(* C8 -- Counter lifecycle: the counter under next.url.id starts absent,    *)
(* never decreases, is never deleted and never has a TTL; a Shorten call    *)
(* changes it by at most +1, and only with its INCR.                        *)
C8_CounterLifecycle ==
    /\ URLIDKEY \notin DOMAIN kv
    /\ [][/\ Counter' >= Counter
          /\ URLIDKEY \in DOMAIN kv => URLIDKEY \in DOMAIN kv'
          /\ URLIDKEY \in DOMAIN kv' => kv'[URLIDKEY].exp = NoTTL
          /\ Counter' # Counter =>
                \E p \in Calls :
                    /\ call[p].pc = "incr" /\ call[p].incrs = 0 /\ call'[p].incrs = 1
                    /\ Counter' = Counter + 1
                    /\ \A q \in Calls \ {p} : call'[q] = call[q]
          /\ \A p \in Calls : call'[p].incrs <= 1]_vars

\* every call has incremented the counter and time has passed since
C8_Witness ==
    /\ Counter = NumCalls
    /\ clock = MaxClock
    /\ \A p \in Calls : call[p].incrs = 1

(* C9 -- Encoder round-trip: decode(encode(n)) = n for every non-negative *)
(* n of the range, hence two distinct values never encode to the same code. *)
C9_EncoderRoundTrip ==
    /\ enc.pc = "decoded" => enc.d = enc.n
    /\ enc.pc \in {"encoded", "decoded"} =>
          \A m \in EncInputs : m # enc.n => Encode(m) # enc.s

\* a three-symbol code decoded
C9_Witness == enc.pc = "decoded" /\ Len(enc.s) = 3 /\ enc.n = Base * Base

DedupKey(p) == URLHashKey(toSha1(call[p].url))

\* this step is the dedup read of call p
DedupStep(p) == call[p].pc = "dedup" /\ call'[p].pc # "dedup"

\* the record the dedup read of call p finds is missing or is the "{}" marker
DedupMiss(p) == DedupKey(p) \notin DOMAIN kv \/ kv[DedupKey(p)].val = EmptyMarker

(* C11 -- Dedup lookup failure is tolerated: when the dedup read finds the *)
(* key absent, finds the "{}" marker, or fails with a backend error,        *)
(* Shorten proceeds to allocate a new code instead of returning an error.   *)
C11_DedupFailureTolerated ==
    [][\A p \in Calls :
          (DedupStep(p) /\ (call'[p].lastO # "ok" \/ DedupMiss(p)))
              => call'[p].pc = "incr"]_vars

(* C11 as amended -- when the dedup read finds the key absent or finds the *)
(* "{}" marker, Shorten proceeds to allocate; when the read fails with a    *)
(* backend error, Shorten returns that error, unclassified, with an empty   *)
(* code, and neither increments the counter nor writes.                     *)
C11_DedupLookup ==
    [][\A p \in Calls :
          DedupStep(p) =>
              IF call'[p].lastO # "ok"
              THEN /\ call'[p].pc = "done"
                   /\ call'[p].err = ErrBackend /\ call'[p].code = <<>>
                   /\ call'[p].incrs = 0 /\ call'[p].cmds = <<"GET">>
                   /\ kv' = kv
              ELSE DedupMiss(p) => call'[p].pc = "incr"]_vars

\* one call found the "{}" marker and went on to allocate, another was ended by
\* the failure of its dedup read
C11_Witness ==
    \E p, q \in Calls :
        /\ Allocated(p)
        /\ DedupKey(p) \in DOMAIN kv /\ kv[DedupKey(p)].val = EmptyMarker
        /\ call[q].pc = "done" /\ call[q].cmds = <<"GET">> /\ call[q].lastO # "ok"

(* C12 -- Dedup hit has no effect on the backend: when the dedup read finds *)
(* a value other than the "{}" marker, Shorten returns that value as the    *)
(* code, with no INCR and no SET: counter, records and expiry times are     *)
(* unchanged, and the call issues nothing afterwards.                       *)
C12_DedupHitNoEffect ==
    [][\A p \in Calls :
          /\ (DedupStep(p) /\ call'[p].lastO = "ok" /\ ~DedupMiss(p)) =>
                /\ call'[p].pc = "done" /\ call'[p].hit
                /\ call'[p].code = kv[DedupKey(p)].val /\ call'[p].err = ErrNone
                /\ call'[p].cmds = <<"GET">>
                /\ call'[p].incrs = 0 /\ call'[p].urlAt = -1
                /\ kv' = kv /\ clock' = clock
          /\ call[p].hit => call'[p] = call[p]]_vars

\* a call returned the code it found, and the record found still has its expiry
C12_Witness ==
    \E p \in Calls :
        /\ call[p].hit /\ Returned(p) /\ call[p].code = <<55>>
        /\ clock > 0
        /\ DedupKey(p) \in DOMAIN kv /\ kv[DedupKey(p)].exp = MaxClock

\* the number of commands named c call p has issued
Issued(p, c) == Cardinality({i \in DOMAIN call[p].cmds : call[p].cmds[i] = c})

\* the number of SET commands call p has issued
Sets(p) == Issued(p, "SET")

\* the server ran the SET of call p's detail record (lines 89-92)
WroteDetail(p) == Sets(p) = 3 /\ call[p].lastO # "refused"

(* C13 -- Detail record is write-once: once the detail record of code c has *)
(* been written by a Shorten call, no step of any Shorten call writes       *)
(* shortlink:<c>:detail again.                                              *)
C13_DetailWriteOnce ==
    \A p, q \in Calls :
        (p # q /\ WroteDetail(p) /\ WroteDetail(q)) => call[p].eid # call[q].eid

(* C14 -- Records expire together: for a Shorten call that completed its   *)
(* writes for code c, there is no state in which exactly one of the URL     *)
(* record and the fingerprint record of c has expired.                      *)
C14_ExpireTogether ==
    \A p \in Calls :
        Returned(p) =>
            (ShortlinkKey(call[p].code) \in DOMAIN kv
                <=> URLHashKey(call[p].code) \in DOMAIN kv)

(* C14 as amended -- the URL record and the fingerprint record of a call    *)
(* are each written with the same TTL value t, counted from the time of its *)
(* own write: the fingerprint record expires no earlier than the URL        *)
(* record, and at the same time when the clock did not advance between the  *)
(* two writes.                                                              *)
C14_SameTTL ==
    [][\A p \in Calls :
          /\ (call[p].pc = "seturl" /\ call'[p].pc = "sethash") =>
                kv'[ShortlinkKey(call[p].eid)] =
                    [val |-> call[p].url, exp |-> clock + call[p].exp]
          /\ (call[p].pc = "sethash" /\ call'[p].pc = "setdetail") =>
                /\ kv'[URLHashKey(call[p].eid)] =
                      [val |-> call[p].url, exp |-> clock + call[p].exp]
                /\ kv'[URLHashKey(call[p].eid)].exp >= call[p].urlAt + call[p].exp
                /\ clock = call[p].urlAt =>
                      kv'[URLHashKey(call[p].eid)].exp = call[p].urlAt + call[p].exp]_vars

\* the only call made has returned; its URL record has expired, its fingerprint
\* record, written a minute later, has not
C14_Witness ==
    \E p \in Calls :
        /\ Returned(p)
        /\ \A q \in Calls \ {p} : call[q].pc = "idle"
        /\ ShortlinkKey(call[p].code) \notin DOMAIN kv
        /\ URLHashKey(call[p].code) \in DOMAIN kv

(* C15 -- Accepted dedup race: two concurrent Shorten calls for the same   *)
(* new URL can both miss the dedup check and both succeed, and then they    *)
(* return distinct codes, each resolving to that URL.                       *)
C15_DedupRace ==
    \A p, q \in Calls :
        (/\ p < q /\ ~call[q].solo
         /\ Returned(p) /\ Returned(q) /\ Allocated(p) /\ Allocated(q)
         /\ call[p].url = call[q].url)
            => call[p].code # call[q].code

\* this step is one of the three writes of call p
SetStep(p) == call[p].pc \in {"seturl", "sethash", "setdetail"} /\ call'[p] # call[p]

\* the key the next write of call p goes to
WriteKey(p) ==
    IF call[p].pc = "seturl" THEN ShortlinkKey(call[p].eid)
    ELSE IF call[p].pc = "sethash" THEN URLHashKey(call[p].eid)
    ELSE ShortlinkDetailKey(call[p].eid)

(* C16 -- Partial writes are not rolled back: when the k-th of the three    *)
(* writes fails, Shorten returns an unclassified error and no code, issues  *)
(* no further command, and every other record stays in the backend with its *)
(* expiry.                                                                  *)
C16_PartialWrites ==
    [][\A p \in Calls :
          /\ (SetStep(p) /\ call'[p].lastO # "ok") =>
                /\ call'[p].pc = "done"
                /\ call'[p].err = ErrBackend /\ call'[p].code = <<>>
                /\ call'[p].cmds = Append(call[p].cmds, "SET")
                /\ \A k \in DOMAIN kv \ {WriteKey(p)} :
                      k \in DOMAIN kv' /\ kv'[k] = kv[k]
          /\ call[p].pc = "done" => call'[p] = call[p]]_vars

\* the only call made failed at its third write: the URL record and the
\* fingerprint record of its code are there, the detail record is not
C16_Witness ==
    \E p \in Calls :
        /\ call[p].pc = "done" /\ call[p].lastO # "ok" /\ Sets(p) = 3
        /\ \A q \in Calls \ {p} : call[q].pc = "idle"
        /\ ShortlinkKey(call[p].eid) \in DOMAIN kv
        /\ URLHashKey(call[p].eid) \in DOMAIN kv
        /\ ShortlinkDetailKey(call[p].eid) \notin DOMAIN kv

\* the latest command of call p was the INCR or the GET of the counter, and failed
AllocFailed(p) ==
    /\ call[p].lastO # "ok"
    /\ call[p].cmds \in { <<"GET", "INCR">>, <<"GET", "INCR", "GET">> }

(* C17 -- Allocation failure is fatal and not retried: when the INCR or    *)
(* the read of the counter fails, Shorten returns an unclassified error and *)
(* an empty code, does not issue the command again and writes no record.    *)
C17_AllocationFailureFatal ==
    \A p \in Calls :
        AllocFailed(p) =>
            /\ call[p].pc = "done"
            /\ call[p].err = ErrBackend /\ call[p].code = <<>>
            /\ call[p].incrs <= 1
            /\ call[p].urlAt = -1 /\ Sets(p) = 0

\* the read of the counter failed after the INCR went through: the counter is the
\* only key of the backend
C17_Witness ==
    \E p \in Calls :
        /\ AllocFailed(p) /\ Issued(p, "GET") = 2 /\ call[p].incrs = 1
        /\ DOMAIN kv = {URLIDKEY}

(* C18 -- Backend operations per call: a Shorten call for a new URL issues *)
(* one dedup read, one INCR and at most three writes, and nothing else; a   *)
(* call that is a dedup hit issues the dedup read only.                     *)
C18_BackendOps ==
    \A p \in Calls :
        IF call[p].hit THEN call[p].cmds = <<"GET">>
        ELSE /\ Issued(p, "GET") <= 1
             /\ Issued(p, "INCR") <= 1
             /\ Issued(p, "SET") <= 3
             /\ Returned(p) =>
                   Issued(p, "GET") = 1 /\ Issued(p, "INCR") = 1 /\ Issued(p, "SET") = 3

\* no record written so far has reached its expiry: the URL record is the first
\* one a call writes, all three with the same TTL
NothingExpired ==
    \A p \in Calls : call[p].urlAt >= 0 => clock < call[p].urlAt + call[p].exp

\* no two calls hold the same id
CodesUnshared ==
    \A p, q \in Calls : (p # q /\ Allocated(p) /\ Allocated(q)) => call[p].id # call[q].id

(* C19 -- Write order: while no record has expired and every code is used   *)
(* by at most one Shorten call, a detail record for c implies a URL record  *)
(* and a fingerprint record for c, and a fingerprint record for c implies a *)
(* URL record for c.                                                        *)
C19_WriteOrder ==
    (NothingExpired /\ CodesUnshared) =>
        \A c \in ProbeCodes :
            /\ ShortlinkDetailKey(c) \in DOMAIN kv =>
                  ShortlinkKey(c) \in DOMAIN kv /\ URLHashKey(c) \in DOMAIN kv
            /\ URLHashKey(c) \in DOMAIN kv => ShortlinkKey(c) \in DOMAIN kv

\* one code has its three records, another only its URL record and its
\* fingerprint record, and time has passed
C19_Witness ==
    /\ NothingExpired /\ CodesUnshared /\ clock > 0
    /\ \E c, d \in ProbeCodes :
          /\ c # d
          /\ ShortlinkDetailKey(c) \in DOMAIN kv
          /\ URLHashKey(d) \in DOMAIN kv /\ ShortlinkDetailKey(d) \notin DOMAIN kv

(* C20 -- Sequential uniqueness: when Shorten calls do not overlap, every   *)
(* successful allocating call returns the encoding of a counter value       *)
(* greater than that of every earlier call, hence a code never returned     *)
(* before, also after the earlier code's records have expired.              *)
C20_SequentialUniqueness ==
    (\A r \in Calls : call[r].solo) =>
        \A p, q \in Calls :
            (p < q /\ Returned(p) /\ Returned(q) /\ Allocated(p) /\ Allocated(q)) =>
                /\ call[q].id > call[p].id
                /\ call[q].code = Encode(call[q].id)
                /\ call[q].code # call[p].code

\* the second call wrote its URL record after the first call's had expired
C20_Witness ==
    /\ \A r \in Calls : call[r].solo
    /\ \E p, q \in Calls :
          /\ p < q /\ Returned(p) /\ Returned(q) /\ Allocated(p) /\ Allocated(q)
          /\ call[q].urlAt >= call[p].urlAt + call[p].exp
          /\ ShortlinkKey(call[p].code) \notin DOMAIN kv

====
